---- MODULE Spec2Model ----
(***************************************************************************)
(* Model of api/src/utils/apply-query.ts: the compiler that turns a        *)
(* JSON-shaped filter/search/paging query into statements on a Knex query  *)
(* builder.  The builder is modelled by the statements it has received;    *)
(* the callbacks handed to it (grouped where, where-in subquery, search    *)
(* group) stay pending until the builder compiles the query.               *)
(***************************************************************************)
EXTENDS Integers, Sequences, FiniteSets, TLC

(***************************************************************************)
(* JSON values.  k is the kind, v the payload.                             *)
(***************************************************************************)
Obj(entries) == [k |-> "obj", v |-> entries]
Arr(elems) == [k |-> "arr", v |-> elems]
Num(n) == [k |-> "num", v |-> n]
Str(s) == [k |-> "str", v |-> s]
Bool(b) == [k |-> "bool", v |-> b]
Undefined == [k |-> "undefined", v |-> 0]
Null == [k |-> "null", v |-> 0]
Entry(key, value) == [key |-> key, value |-> value]
One(key, value) == Obj(<<Entry(key, value)>>)
EmptyObj == Obj(<<>>)

\* lodash isPlainObject
isPlainObject(value) == value.k = "obj"

\* Object.entries: own enumerable properties in insertion order
ObjectEntries(value) ==
  CASE value.k = "obj" -> value.v
    [] value.k = "arr" -> [i \in 1..Len(value.v) |-> Entry(ToString(i - 1), value.v[i])]
    [] OTHER -> <<>>

\* Object.keys(value)[0], "" standing for undefined
FirstKey(value) ==
  IF Len(ObjectEntries(value)) = 0 THEN "" ELSE ObjectEntries(value)[1].key

\* Object.values(value)[0]
FirstValue(value) ==
  IF Len(ObjectEntries(value)) = 0 THEN Undefined ELSE ObjectEntries(value)[1].value

\* key.startsWith('_') over the keys that occur in the model
UnderscoreKeys ==
  {"_and", "_or", "_eq", "_neq", "_null", "_nnull", "_empty", "_nempty",
   "_gt", "_gte", "_lt", "_lte", "_in", "_nin", "_contains", "_ncontains",
   "_between", "_nbetween"}
startsWithUnderscore(key) == key \in UnderscoreKeys

\* key.split(':') over the keys that occur in the model
SplitColon(key) ==
  CASE key = "item:pages" -> <<"item", "pages">>
    [] key = "item:authors" -> <<"item", "authors">>
    [] key = "item:" -> <<"item", "">>
    [] OTHER -> <<key>>
PathRoot(segment) == SplitColon(segment)[1]
PathScope(segment) ==
  IF Len(SplitColon(segment)) > 1 THEN SplitColon(segment)[2] ELSE ""

(***************************************************************************)
(* SchemaOverview: the collections and relations the filters run against.  *)
(***************************************************************************)
Collections == {"pages", "articles", "authors", "comments", "items", "notes"}
Primary(collection) == "id"

FieldsOf(collection) ==
  CASE collection = "pages" ->
         <<[name |-> "id", type |-> "integer"], [name |-> "title", type |-> "string"],
           [name |-> "body", type |-> "text"], [name |-> "uid", type |-> "uuid"],
           [name |-> "rating", type |-> "float"], [name |-> "live", type |-> "boolean"]>>
    [] collection = "articles" ->
         <<[name |-> "id", type |-> "integer"], [name |-> "title", type |-> "string"],
           [name |-> "page_id", type |-> "integer"], [name |-> "author", type |-> "integer"],
           [name |-> "item", type |-> "string"], [name |-> "collection", type |-> "string"]>>
    [] collection = "authors" ->
         <<[name |-> "id", type |-> "integer"], [name |-> "name", type |-> "string"],
           [name |-> "age", type |-> "integer"]>>
    [] collection = "comments" ->
         <<[name |-> "id", type |-> "integer"], [name |-> "body", type |-> "text"],
           [name |-> "article", type |-> "integer"]>>
    [] collection = "items" ->
         <<[name |-> "id", type |-> "integer"], [name |-> "a", type |-> "integer"],
           [name |-> "b", type |-> "integer"], [name |-> "c", type |-> "integer"],
           [name |-> "f", type |-> "string"]>>
    [] OTHER ->
         <<[name |-> "text_col", type |-> "text"], [name |-> "int_col", type |-> "integer"]>>

NoRelation ==
  [collection |-> "", field |-> "", related_collection |-> "", one_field |-> "",
   one_collection_field |-> "", one_allowed_collections |-> {}]

Relations ==
  << [collection |-> "articles", field |-> "page_id", related_collection |-> "pages",
      one_field |-> "articles", one_collection_field |-> "", one_allowed_collections |-> {}],
     [collection |-> "articles", field |-> "author", related_collection |-> "authors",
      one_field |-> "articles", one_collection_field |-> "", one_allowed_collections |-> {}],
     [collection |-> "articles", field |-> "item", related_collection |-> "",
      one_field |-> "", one_collection_field |-> "collection",
      one_allowed_collections |-> {"pages", "authors"}],
     [collection |-> "comments", field |-> "article", related_collection |-> "articles",
      one_field |-> "comments", one_collection_field |-> "", one_allowed_collections |-> {}] >>

\* relations.find(...) of followRelation, addWhereClauses and getWhereColumn
RelationMatches(relation, collection, pathRoot) ==
  \/ relation.collection = collection /\ relation.field = pathRoot
  \/ relation.related_collection = collection /\ relation.one_field = pathRoot

FindRelation(collection, pathRoot) ==
  LET hits == {i \in 1..Len(Relations) : RelationMatches(Relations[i], collection, pathRoot)}
  IN IF hits = {} THEN NoRelation
     ELSE Relations[CHOOSE i \in hits : \A j \in hits : i <= j]

\* getRelationType (classify of the path resolver)
getRelationType(relation, collection, field) ==
  CASE relation = NoRelation -> "null"
    [] relation.collection = collection /\ relation.field = field
         /\ relation.one_allowed_collections # {} -> "m2a"
    [] relation.collection = collection /\ relation.field = field -> "m2o"
    [] relation.related_collection = collection /\ relation.one_field = field -> "o2m"
    [] OTHER -> "null"

(***************************************************************************)
(* getFilterPath and getOperation                                          *)
(***************************************************************************)
RECURSIVE getFilterPath(_, _)
getFilterPath(key, value) ==
  IF FirstKey(value) # "" /\ startsWithUnderscore(FirstKey(value))
  THEN <<key>>
  ELSE IF isPlainObject(value)
       THEN <<key>> \o getFilterPath(FirstKey(value), FirstValue(value))
       ELSE <<key>>

RECURSIVE getOperation(_, _)
getOperation(key, value) ==
  IF startsWithUnderscore(key) /\ key # "_and" /\ key # "_or"
  THEN [operator |-> key, value |-> value]
  ELSE IF ~isPlainObject(value)
       THEN [operator |-> "_eq", value |-> value]
       ELSE getOperation(FirstKey(value), FirstValue(value))

(***************************************************************************)
(* aliasMap: lodash set/get on a nested object whose leaves are aliases.   *)
(* The object is kept as the set of its leaves [path, alias].              *)
(***************************************************************************)
IsPrefix(p, q) == Len(p) <= Len(q) /\ \A i \in 1..Len(p) : p[i] = q[i]

\* set(aliasMap, path, alias): a leaf on the way down is replaced by an object,
\* whatever sits at the path itself is overwritten
AliasSet(aliasMap, path, alias) ==
  {e \in aliasMap : ~IsPrefix(e.path, path) /\ ~IsPrefix(path, e.path)}
    \cup {[path |-> path, alias |-> alias]}

\* get(aliasMap, path): the alias, "[object Object]" for an inner node, "" for undefined
AliasGet(aliasMap, path) ==
  IF \E e \in aliasMap : e.path = path
  THEN (CHOOSE e \in aliasMap : e.path = path).alias
  ELSE IF \E e \in aliasMap : IsPrefix(path, e.path)
       THEN "[object Object]"
       ELSE ""

\* generateAlias(): a name not handed out before
generateAlias(n) == "alias" \o ToString(n)

Col(table, column) == <<table, column>>

(***************************************************************************)
(* Join planner: addJoins / addJoin / followRelation.                      *)
(* ps is the state of one applyFilter pass on one builder:                 *)
(*   joins     the leftJoin calls made so far                              *)
(*   aliasMap  the pass's alias map                                        *)
(*   n         the number of aliases generated so far                      *)
(*   err       the exception thrown ("none" while running)                 *)
(* hops is the list of segments of the whole path up to the hop at hand;   *)
(* it is recorded in the join only to tell the joins of one path apart.    *)
(***************************************************************************)
LeftJoin(ps, type, alias, table, left, right, pin, hops) ==
  [ps EXCEPT !.joins = Append(@, [type |-> type, alias |-> alias, table |-> table,
                                  left |-> left, right |-> right, pin |-> pin,
                                  hops |-> hops])]

\* a planner that does not ask for the scope
ScopeMissing_Never(pathScope) == FALSE

\* if (!pathScope) throw new InvalidQueryException(...)
ScopeMissing(pathScope) == pathScope = ""

\* a planner that joins every one-to-many hop, the first hop of a root pass too
JoinsO2M_Always(relationType, subQuery, parentAlias) == relationType = "o2m"

\* relationType === 'o2m' && (subQuery === true || parentAlias !== undefined)
JoinsO2M(relationType, subQuery, parentAlias) ==
  relationType = "o2m" /\ (subQuery \/ parentAlias # "")

\* if (relationType === 'm2o' || subQuery === true): go on with the rest of the path
Descends(relationType, subQuery) == relationType = "m2o" \/ subQuery

\* set(aliasMap, parentAlias ? [parentAlias, ...pathParts] : pathParts, alias)
RecordAlias(ps, pathParts, parentAlias, alias) ==
  [ps EXCEPT !.n = @ + 1,
             !.aliasMap = AliasSet(@, IF parentAlias # "" THEN <<parentAlias>> \o pathParts
                                      ELSE pathParts, alias)]

\* the three `if (relationType === ...)` blocks that join the hop
JoinHop(ps, relation, relationType, alias, parentRef, pathScope, subQuery, parentAlias, hops) ==
  CASE relationType = "m2o" ->
         LeftJoin(ps, "m2o", alias, relation.related_collection,
                  Col(parentRef, relation.field),
                  Col(alias, Primary(relation.related_collection)), <<>>, hops)
    [] relationType = "m2a" ->
         IF ScopeMissing(pathScope)
         THEN [ps EXCEPT !.err = "scope"]
         ELSE LeftJoin(ps, "m2a", alias, pathScope,
                       Col(parentRef, relation.field),
                       Col(alias, Primary(pathScope)),
                       <<relation.one_collection_field, pathScope>>, hops)
    [] JoinsO2M(relationType, subQuery, parentAlias) ->
         LeftJoin(ps, "o2m", alias, relation.collection,
                  Col(parentRef, Primary(relation.related_collection)),
                  Col(alias, relation.field), <<>>, hops)
    [] OTHER -> ps

\* let parent: the collection the rest of the path is resolved in
NextParent(relation, relationType, pathScope) ==
  CASE relationType = "m2o" -> relation.related_collection
    [] relationType = "m2a" -> pathScope
    [] OTHER -> relation.collection

RECURSIVE followRelation(_, _, _, _, _, _)

\* pathParts.shift(); if (pathParts.length) followRelation(pathParts, parent, alias)
FollowRest(ps, rest, parent, alias, subQuery, hops, relationType) ==
  IF ps.err = "none" /\ Descends(relationType, subQuery) /\ Len(rest) > 0
  THEN followRelation(ps, rest, parent, alias, subQuery, hops)
  ELSE ps

FollowTyped(ps, pathParts, parentCollection, parentAlias, subQuery, hops, relation, relationType, alias) ==
  FollowRest(JoinHop(RecordAlias(ps, pathParts, parentAlias, alias), relation, relationType,
                     alias, IF parentAlias # "" THEN parentAlias ELSE parentCollection,
                     PathScope(pathParts[1]), subQuery, parentAlias, hops),
             Tail(pathParts), NextParent(relation, relationType, PathScope(pathParts[1])),
             alias, subQuery, hops, relationType)

FollowFound(ps, pathParts, parentCollection, parentAlias, subQuery, hops, relation) ==
  IF relation = NoRelation THEN ps
  ELSE FollowTyped(ps, pathParts, parentCollection, parentAlias, subQuery, hops, relation,
                   getRelationType(relation, parentCollection, PathRoot(pathParts[1])),
                   generateAlias(ps.n + 1))

followRelation(ps, pathParts, parentCollection, parentAlias, subQuery, done) ==
  FollowFound(ps, pathParts, parentCollection, parentAlias, subQuery,
              Append(done, pathParts[1]),
              FindRelation(parentCollection, PathRoot(pathParts[1])))

addJoin(ps, path, collection, subQuery) ==
  followRelation(ps, path, collection, "", subQuery, <<>>)

\* a short-circuit that asks for every sub-filter to be empty
ShortCircuits_Every(key, value) ==
  /\ key = "_or"
  /\ \A i \in 1..Len(ObjectEntries(value)) :
       Len(ObjectEntries(ObjectEntries(value)[i].value)) = 0

\* key === '_or' && value.some((subFilter) => Object.keys(subFilter).length === 0)
ShortCircuits(key, value) ==
  /\ key = "_or"
  /\ \E i \in 1..Len(ObjectEntries(value)) :
       Len(ObjectEntries(ObjectEntries(value)[i].value)) = 0

RECURSIVE addJoinsFrom(_, _, _, _, _)
addJoins(ps, filter, collection, subQuery) ==
  addJoinsFrom(ps, ObjectEntries(filter), 1, collection, subQuery)

\* value.forEach((subFilter) => addJoins(dbQuery, subFilter, collection))
RECURSIVE addJoinsEach(_, _, _, _, _)
addJoinsEach(ps, children, i, collection, subQuery) ==
  IF i > Len(children) \/ ps.err # "none" THEN ps
  ELSE addJoinsEach(addJoins(ps, children[i].value, collection, subQuery),
                    children, i + 1, collection, subQuery)

\* if (filterPath.length > 1) addJoin(filterPath, collection)
addJoinsPath(ps, filterPath, collection, subQuery) ==
  IF Len(filterPath) > 1 THEN addJoin(ps, filterPath, collection, subQuery) ELSE ps

\* the body of the loop over Object.entries(filter)
addJoinsEntry(ps, key, value, collection, subQuery) ==
  IF key = "_or" \/ key = "_and"
  THEN IF ShortCircuits(key, value) THEN ps
       ELSE addJoinsEach(ps, ObjectEntries(value), 1, collection, subQuery)
  ELSE addJoinsPath(ps, getFilterPath(key, value), collection, subQuery)

\* the loop over Object.entries(filter), from entry i on
addJoinsFrom(ps, entries, i, collection, subQuery) ==
  IF i > Len(entries) \/ ps.err # "none" THEN ps
  ELSE addJoinsFrom(addJoinsEntry(ps, entries[i].key, entries[i].value, collection, subQuery),
                    entries, i + 1, collection, subQuery)

NewPass(n) == [joins |-> <<>>, aliasMap |-> {}, n |-> n, err |-> "none"]

(***************************************************************************)
(* Operator table: applyFilterToQuery.  A statement is one where-call on   *)
(* the builder: bool is how it is combined with what precedes it, not the  *)
(* whereNot flag.                                                          *)
(***************************************************************************)
WhereNull(key, logical, not) == [kind |-> "null", bool |-> logical, not |-> not, col |-> key]
WhereBasic(key, logical, not, op, val) ==
  [kind |-> "basic", bool |-> logical, not |-> not, col |-> key, op |-> op, val |-> val]
WhereInList(key, logical, not, vals) ==
  [kind |-> "in", bool |-> logical, not |-> not, col |-> key, vals |-> vals]
WhereBetween(key, logical, not, vals) ==
  [kind |-> "between", bool |-> logical, not |-> not, col |-> key, vals |-> vals]
WhereRaw(key, logical, fn, val) ==
  [kind |-> "raw", bool |-> logical, not |-> FALSE, col |-> key, op |-> fn, val |-> val]
\* `%${v}%` and friends
Like(pre, val, post) == [k |-> "like", v |-> <<pre, val, post>>]

\* compareValue.filter((val) => val !== undefined)
SelectDefined(elems) == SelectSeq(elems, LAMBDA e : e # Undefined)

\* toArray of @directus/shared/utils
toArray(val) == IF val.k = "arr" THEN val.v ELSE <<val>>

OperandFree(key, operator, compareValue, logical) ==
  CASE operator = "_null" -> <<WhereNull(key, logical, compareValue = Bool(FALSE))>>
    [] operator = "_nnull" -> <<WhereNull(key, logical, ~(compareValue = Bool(FALSE)))>>
    [] operator = "_empty" ->
         <<WhereBasic(key, logical, compareValue = Bool(FALSE), "=", Str(""))>>
    [] operator = "_nempty" ->
         <<WhereBasic(key, logical, ~(compareValue = Bool(FALSE)), "!=", Str(""))>>
    [] OTHER -> <<>>

WithOperand(key, operator, compareValue, logical) ==
  CASE operator = "_eq" -> <<WhereBasic(key, logical, FALSE, "=", compareValue)>>
    [] operator = "_neq" -> <<WhereBasic(key, logical, TRUE, "=", compareValue)>>
    [] operator = "_contains" -> <<WhereBasic(key, logical, FALSE, "like", Like("%", compareValue, "%"))>>
    [] operator = "_ncontains" -> <<WhereBasic(key, logical, TRUE, "like", Like("%", compareValue, "%"))>>
    [] operator = "_starts_with" -> <<WhereBasic(key, logical, FALSE, "like", Like("", compareValue, "%"))>>
    [] operator = "_nstarts_with" -> <<WhereBasic(key, logical, TRUE, "like", Like("", compareValue, "%"))>>
    [] operator = "_ends_with" -> <<WhereBasic(key, logical, FALSE, "like", Like("%", compareValue, ""))>>
    [] operator = "_nends_with" -> <<WhereBasic(key, logical, TRUE, "like", Like("%", compareValue, ""))>>
    [] operator = "_gt" -> <<WhereBasic(key, logical, FALSE, ">", compareValue)>>
    [] operator = "_gte" -> <<WhereBasic(key, logical, FALSE, ">=", compareValue)>>
    [] operator = "_lt" -> <<WhereBasic(key, logical, FALSE, "<", compareValue)>>
    [] operator = "_lte" -> <<WhereBasic(key, logical, FALSE, "<=", compareValue)>>
    [] operator = "in" -> <<WhereInList(key, logical, FALSE, toArray(compareValue))>>
    [] operator = "nin" -> <<WhereInList(key, logical, TRUE, toArray(compareValue))>>
    [] operator = "_between" -> <<WhereBetween(key, logical, FALSE, toArray(compareValue))>>
    [] operator = "_nbetween" -> <<WhereBetween(key, logical, TRUE, toArray(compareValue))>>
    [] operator = "_intersects" -> <<WhereRaw(key, logical, "intersects", compareValue)>>
    [] operator = "_nintersects" -> <<WhereRaw(key, logical, "nintersects", compareValue)>>
    [] operator = "_intersects_bbox" -> <<WhereRaw(key, logical, "intersects_bbox", compareValue)>>
    [] operator = "_nintersects_bbox" -> <<WhereRaw(key, logical, "nintersects_bbox", compareValue)>>
    [] OTHER -> <<>>

\* the statements applyFilterToQuery adds to the builder
applyFilterToQuery(key, operator, compareValue, logical) ==
  OperandFree(key, operator, compareValue, logical)
    \o (IF compareValue = Undefined THEN <<>>
        ELSE WithOperand(key, operator,
                         IF compareValue.k = "arr" THEN Arr(SelectDefined(compareValue.v))
                         ELSE compareValue,
                         logical))

(***************************************************************************)
(* Predicate compiler: addWhereClauses / getWhereColumn.                   *)
(***************************************************************************)
RECURSIVE getWhereColumn(_, _, _, _)

\* the end of getWhereColumn: one part left names the column, more parts recurse
WhereColumnRest(aliasMap, remainingParts, parent, found) ==
  IF Len(remainingParts) = 1
  THEN [col |-> Col(IF found # "" THEN found ELSE parent, remainingParts[1]), err |-> "none"]
  ELSE IF Len(remainingParts) > 0
       THEN getWhereColumn(aliasMap, remainingParts, parent, found)
       ELSE [col |-> <<>>, err |-> "none"]

WhereColumnTyped(aliasMap, path, alias, relation, relationType) ==
  IF relationType = "m2a" /\ PathScope(path[1]) = ""
  THEN [col |-> <<>>, err |-> "scope"]
  ELSE WhereColumnRest(aliasMap, Tail(path),
                       NextParent(relation, relationType, PathScope(path[1])),
                       AliasGet(aliasMap, IF alias # "" THEN <<alias>> \o path ELSE path))

\* a getWhereColumn that returns nothing for a segment that is not relational
WhereColumnFound_Void(aliasMap, path, collection, alias, relation) ==
  IF relation = NoRelation
  THEN [col |-> <<>>, err |-> "none"]
  ELSE WhereColumnTyped(aliasMap, path, alias, relation,
                        getRelationType(relation, collection, PathRoot(path[1])))

WhereColumnFound(aliasMap, path, collection, alias, relation) ==
  IF relation = NoRelation
  THEN [col |-> <<>>, err |-> "not_relational"]
  ELSE WhereColumnTyped(aliasMap, path, alias, relation,
                        getRelationType(relation, collection, PathRoot(path[1])))

\* the result is [col, err]
getWhereColumn(aliasMap, path, collection, alias) ==
  WhereColumnFound(aliasMap, path, collection, alias,
                   FindRelation(collection, PathRoot(path[1])))

\* a group that is combined into its parent with its own operator
WhereWrapped_Own(logical, key, value, collection, aliasMap, subQuery) ==
  [kind |-> "whereWrapped", bool |-> IF key = "_and" THEN "and" ELSE "or", key |-> key,
   value |-> value, collection |-> collection, aliasMap |-> aliasMap, subQuery |-> subQuery]

\* dbQuery[logical].where((subQuery) => value.forEach(...)): the callback is kept
\* by the builder with what it closes over
WhereWrapped(logical, key, value, collection, aliasMap, subQuery) ==
  [kind |-> "whereWrapped", bool |-> logical, key |-> key, value |-> value,
   collection |-> collection, aliasMap |-> aliasMap, subQuery |-> subQuery]

\* dbQuery[logical].whereIn(pkField, (subQueryKnex) => ...)
WhereInCallback(logical, pkField, relation, value) ==
  [kind |-> "whereInCallback", bool |-> logical, col |-> pkField,
   relation |-> relation, value |-> value]

\* const columnName = getWhereColumn(...); if (!columnName) continue; applyFilterToQuery(...)
WhereOnColumn(ws, column, operation, logical) ==
  IF column.err # "none" THEN [ws EXCEPT !.err = column.err]
  ELSE IF column.col = <<>> THEN ws
  ELSE [ws EXCEPT !.stmts = @ \o applyFilterToQuery(column.col, operation.operator,
                                                    operation.value, logical)]

\* the branches on relationType of addWhereClauses
WhereTyped(ws, value, collection, logical, aliasMap, subQuery, filterPath, operation, relation, relationType) ==
  IF relationType \in {"m2o", "m2a", "null"}
  THEN IF Len(filterPath) > 1
       THEN WhereOnColumn(ws, getWhereColumn(aliasMap, filterPath, collection, ""),
                          operation, logical)
       ELSE [ws EXCEPT !.stmts = @ \o applyFilterToQuery(Col(collection, filterPath[1]),
                                        operation.operator, operation.value, logical)]
  ELSE IF subQuery = FALSE
       THEN [ws EXCEPT !.stmts = Append(@,
               WhereInCallback(logical, Col(collection, Primary(relation.related_collection)),
                               relation, value))]
       ELSE ws

WhereFound(ws, value, collection, logical, aliasMap, subQuery, filterPath, operation, relation) ==
  WhereTyped(ws, value, collection, logical, aliasMap, subQuery, filterPath, operation,
             relation, getRelationType(relation, collection, PathRoot(filterPath[1])))

WherePath(ws, value, collection, logical, aliasMap, subQuery, filterPath, operation) ==
  WhereFound(ws, value, collection, logical, aliasMap, subQuery, filterPath, operation,
             FindRelation(collection, PathRoot(filterPath[1])))

\* the body of the loop over Object.entries(filter)
addWhereClausesEntry(ws, key, value, collection, logical, aliasMap, subQuery) ==
  IF key = "_or" \/ key = "_and"
  THEN IF ShortCircuits(key, value) THEN ws
       ELSE [ws EXCEPT !.stmts = Append(@,
               WhereWrapped(logical, key, value, collection, aliasMap, subQuery))]
  ELSE WherePath(ws, value, collection, logical, aliasMap, subQuery,
                 getFilterPath(key, value), getOperation(key, value))

\* ws is [stmts, err]: the statements added to the builder and the exception thrown
RECURSIVE addWhereClausesFrom(_, _, _, _, _, _, _)
addWhereClauses(ws, filter, collection, logical, aliasMap, subQuery) ==
  addWhereClausesFrom(ws, ObjectEntries(filter), 1, collection, logical, aliasMap, subQuery)

addWhereClausesFrom(ws, entries, i, collection, logical, aliasMap, subQuery) ==
  IF i > Len(entries) \/ ws.err # "none" THEN ws
  ELSE addWhereClausesFrom(
         addWhereClausesEntry(ws, entries[i].key, entries[i].value, collection, logical,
                              aliasMap, subQuery),
         entries, i + 1, collection, logical, aliasMap, subQuery)

\* applyFilter after addJoins: addWhereClauses unless addJoins threw
WhereAfterJoins(ps, filter, collection, subQuery) ==
  IF ps.err # "none"
  THEN [stmts |-> <<>>, err |-> ps.err]
  ELSE addWhereClauses([stmts |-> <<>>, err |-> "none"], filter, collection, "and",
                       ps.aliasMap, subQuery)

PassResult(ps, ws) == [joins |-> ps.joins, stmts |-> ws.stmts, n |-> ps.n, err |-> ws.err]

PassOf(ps, filter, collection, subQuery) ==
  PassResult(ps, WhereAfterJoins(ps, filter, collection, subQuery))

\* applyFilter up to its return: addJoins, then addWhereClauses.
\* The result is [joins, stmts, n, err].
applyFilter(filter, collection, subQuery, n) ==
  PassOf(addJoins(NewPass(n), filter, collection, subQuery), filter, collection, subQuery)

(***************************************************************************)
(* Search compiler: applySearch.                                           *)
(***************************************************************************)
\* a search that leaves the case of the term alone
toLowerCase_Identity(term) == term

\* searchQuery.toLowerCase() over the terms of the model
toLowerCase(term) ==
  CASE term = "Abc" -> "abc"
    [] term = "6BA7B810-9DAD-11D1-80B4-00C04FD430C8" -> "6ba7b810-9dad-11d1-80b4-00c04fd430c8"
    [] OTHER -> term

\* Number(searchQuery): <<>> stands for NaN
NumberOf(term) ==
  CASE term = "42" -> <<42>>
    [] term = "7" -> <<7>>
    [] OTHER -> <<>>

\* validate(searchQuery) of uuid-validate
validate(term) ==
  term \in {"6ba7b810-9dad-11d1-80b4-00c04fd430c8", "6BA7B810-9DAD-11D1-80B4-00C04FD430C8"}

NumericTypes == {"bigInteger", "integer", "decimal", "float"}

\* this.orWhereRaw(`LOWER(??) LIKE ?`, [column, `%${term}%`])
OrWhereRawLowerLike(key, term) ==
  [kind |-> "raw", bool |-> "or", not |-> FALSE, col |-> key, op |-> "LOWER(??) LIKE ?",
   val |-> Like("%", Str(term), "%")]

\* what the callback of applySearch adds for one field
SearchField(collection, field, searchQuery) ==
  IF field.type \in {"text", "string"}
  THEN <<OrWhereRawLowerLike(Col(collection, field.name), toLowerCase(searchQuery))>>
  ELSE IF field.type \in NumericTypes
  THEN IF NumberOf(searchQuery) # <<>>
       THEN <<WhereBasic(Col(collection, field.name), "or", FALSE, "=",
                         Num(NumberOf(searchQuery)[1]))>>
       ELSE <<>>
  ELSE IF field.type = "uuid" /\ validate(searchQuery)
  THEN <<WhereBasic(Col(collection, field.name), "or", FALSE, "=", Str(searchQuery))>>
  ELSE <<>>

RECURSIVE SearchFields(_, _, _, _)
SearchFields(collection, fields, i, searchQuery) ==
  IF i > Len(fields) THEN <<>>
  ELSE SearchField(collection, fields[i], searchQuery)
         \o SearchFields(collection, fields, i + 1, searchQuery)

\* dbQuery.andWhere(function () {...}): the callback is kept by the builder
applySearch(searchQuery, collection) ==
  [kind |-> "searchCallback", bool |-> "and", fields |-> FieldsOf(collection),
   collection |-> collection, searchQuery |-> searchQuery]

(***************************************************************************)
(* The builder compiling its statements: every pending callback is run on  *)
(* a builder of its own, whose statements are compiled in turn.  A group   *)
(* that received no statement is left out of the SQL.                      *)
(* The result is [sql, n, err].                                            *)
(***************************************************************************)
Truthy(value) ==
  CASE value.k \in {"obj", "arr"} -> TRUE
    [] value.k = "num" -> value.v # 0
    [] value.k = "str" -> value.v # ""
    [] value.k = "bool" -> value.v
    [] OTHER -> FALSE

Group(bool, items) == [kind |-> "group", bool |-> bool, not |-> FALSE, items |-> items]
InSubquery(bool, col, select, from, joins, where) ==
  [kind |-> "inSubquery", bool |-> bool, not |-> FALSE, col |-> col, select |-> select,
   from |-> from, joins |-> joins, where |-> where]

\* children that are always combined with and
ChildLogical_And(key) == "and"

\* key === '_and' ? 'and' : 'or'
ChildLogical(key) == IF key = "_and" THEN "and" ELSE "or"

\* value.forEach((subFilter) => addWhereClauses(subQuery, subFilter, collection, ...))
RECURSIVE addWhereClausesEach(_, _, _, _, _, _, _)
addWhereClausesEach(ws, children, i, collection, logical, aliasMap, subQuery) ==
  IF i > Len(children) \/ ws.err # "none" THEN ws
  ELSE addWhereClausesEach(
         addWhereClauses(ws, children[i].value, collection, logical, aliasMap, subQuery),
         children, i + 1, collection, logical, aliasMap, subQuery)

RECURSIVE CompileFrom(_, _, _)
Compile(stmts, n) == CompileFrom(stmts, 1, [sql |-> <<>>, n |-> n, err |-> "none"])

\* the group of a where(callback) once its own statements are compiled
GroupOf(bool, inner) ==
  IF inner.err # "none" \/ inner.sql = <<>> THEN [inner EXCEPT !.sql = <<>>]
  ELSE [inner EXCEPT !.sql = <<Group(bool, inner.sql)>>]

\* the statements of a callback's builder are compiled unless the callback threw
CompileCallback(ws, n) ==
  IF ws.err # "none" THEN [sql |-> <<>>, n |-> n, err |-> ws.err]
  ELSE Compile(ws.stmts, n)

CompileWrapped(st, n) ==
  GroupOf(st.bool,
          CompileCallback(
            addWhereClausesEach([stmts |-> <<>>, err |-> "none"], ObjectEntries(st.value), 1,
                                st.collection, ChildLogical(st.key), st.aliasMap, st.subQuery),
            n))

\* if (query.filter) applyFilter(...) of the applyQuery call in the callback
FilterPass(filter, collection, subQuery, n) ==
  IF Truthy(filter) THEN applyFilter(filter, collection, subQuery, n)
  ELSE [joins |-> <<>>, stmts |-> <<>>, n |-> n, err |-> "none"]

SubqueryOf(st, pass, inner) ==
  IF inner.err # "none" THEN [inner EXCEPT !.sql = <<>>]
  ELSE [inner EXCEPT !.sql = <<InSubquery(st.bool, st.col,
                                          Col(st.relation.collection, st.relation.field),
                                          st.relation.collection, pass.joins, inner.sql)>>]

CompilePass(st, pass) == SubqueryOf(st, pass, CompileCallback(pass, pass.n))

\* the callback of whereIn: select, from, then applyQuery(..., {filter: value}, schema, true)
CompileWhereIn(st, n) ==
  CompilePass(st, FilterPass(st.value, st.relation.collection, TRUE, n))

SearchGroup(bool, items, n) ==
  [sql |-> IF items = <<>> THEN <<>> ELSE <<Group(bool, items)>>, n |-> n, err |-> "none"]

CompileSearch(st, n) ==
  SearchGroup(st.bool, SearchFields(st.collection, st.fields, 1, st.searchQuery), n)

CompileOne(st, n) ==
  CASE st.kind = "whereWrapped" -> CompileWrapped(st, n)
    [] st.kind = "whereInCallback" -> CompileWhereIn(st, n)
    [] st.kind = "searchCallback" -> CompileSearch(st, n)
    [] OTHER -> [sql |-> <<st>>, n |-> n, err |-> "none"]

Compiled(acc, one) == [sql |-> acc.sql \o one.sql, n |-> one.n, err |-> one.err]

CompileFrom(stmts, i, acc) ==
  IF i > Len(stmts) \/ acc.err # "none" THEN acc
  ELSE CompileFrom(stmts, i + 1, Compiled(acc, CompileOne(stmts[i], acc.n)))

(***************************************************************************)
(* Query assembler: applyQuery.                                            *)
(***************************************************************************)
\* an offset that counts pages from zero
PageOffset_FromZero(limit, page) == limit * page

\* query.limit * (query.page - 1)
PageOffset(limit, page) == limit * (page - 1)

NoQuery ==
  [sort |-> <<>>, limit |-> Undefined, offset |-> Undefined, page |-> Undefined,
   filter |-> Undefined, search |-> Undefined]

NewBuilder ==
  [orderBy |-> <<>>, limit |-> Undefined, offset |-> Undefined, joins |-> <<>>,
   stmts |-> <<>>]

\* if (query.sort) dbQuery.orderBy(...)
OrderBy(b, collection, query) ==
  [b EXCEPT !.orderBy = [i \in 1..Len(query.sort) |-> Col(collection, query.sort[i])]]

\* if (typeof query.limit === 'number') dbQuery.limit(query.limit)
Limit(b, query) == IF query.limit.k = "num" THEN [b EXCEPT !.limit = query.limit] ELSE b

\* if (query.offset) dbQuery.offset(query.offset)
Offset(b, query) == IF Truthy(query.offset) THEN [b EXCEPT !.offset = query.offset] ELSE b

\* if (query.page && query.limit) dbQuery.offset(query.limit * (query.page - 1))
Page(b, query) ==
  IF Truthy(query.page) /\ Truthy(query.limit)
  THEN [b EXCEPT !.offset = Num(PageOffset(query.limit.v, query.page.v))]
  ELSE b

\* if (query.search) applySearch(...), not reached when applyFilter threw
Search(b, query, collection, passErr) ==
  IF passErr = "none" /\ Truthy(query.search)
  THEN [b EXCEPT !.stmts = Append(@, applySearch(query.search.v, collection))]
  ELSE b

Filtered(b, query, collection, pass) ==
  [builder |-> Search([b EXCEPT !.joins = pass.joins, !.stmts = pass.stmts], query,
                      collection, pass.err),
   n |-> pass.n, err |-> pass.err]

\* the builder and the exception after applyQuery: [builder, n, err]
applyQuery(collection, query, subQuery) ==
  Filtered(Page(Offset(Limit(OrderBy(NewBuilder, collection, query), query), query), query),
           query, collection, FilterPass(query.filter, collection, subQuery, 0))

(***************************************************************************)
(* The inputs the compiler is run on.                                      *)
(***************************************************************************)
MaxLimit == 3
MaxPage == 3
MaxOffset == 3

Cmp(field, operator, operand) == One(field, One(operator, operand))

ArticleLeaves ==
  { Cmp("title", "_eq", Str("x")),
    One("author", Num(3)),
    One("author", Cmp("name", "_eq", Str("x"))),
    One("author", Cmp("name", "_neq", Str("y"))),
    One("author", Cmp("age", "_gt", Num(1))),
    One("page_id", Cmp("title", "_eq", Str("x"))),
    One("page_id", One("articles", Cmp("title", "_eq", Str("x")))),
    One("item:pages", Cmp("title", "_eq", Str("x"))),
    One("item:pages", One("articles", Cmp("title", "_eq", Str("x")))),
    One("item", Cmp("title", "_eq", Str("x"))),
    One("author", One("articles", One("item", Cmp("title", "_eq", Str("x"))))),
    One("title", Cmp("x", "_eq", Num(1))),
    One("author", Obj(<<Entry("name", One("_eq", Str("x"))),
                        Entry("age", One("_gt", Num(1)))>>)),
    One("page_id", One("articles", One("author", Cmp("name", "_eq", Str("x"))))),
    One("item:authors", One("articles", One("page_id", Cmp("title", "_eq", Str("x"))))) }

PageLeaves ==
  { Cmp("title", "_eq", Str("x")),
    Cmp("articles", "_null", Bool(TRUE)),
    One("articles", Cmp("title", "_eq", Str("x"))),
    One("articles", One("author", Cmp("name", "_eq", Str("x")))),
    One("articles", One("item:authors", Cmp("name", "_eq", Str("x")))),
    One("articles", One("item", Cmp("title", "_eq", Str("x")))),
    One("articles", One("title", Cmp("x", "_eq", Num(1)))),
    One("articles", One("comments", Cmp("body", "_eq", Str("x")))),
    One("title", Cmp("x", "_eq", Num(1))) }

AuthorLeaves ==
  { Cmp("name", "_eq", Str("x")),
    One("articles", Cmp("title", "_eq", Str("x"))),
    One("articles", One("page_id", Cmp("title", "_eq", Str("x")))),
    One("articles", One("page_id", One("articles", Cmp("title", "_eq", Str("x"))))) }

PlainLeaves == {Cmp("a", "_eq", Num(1)), Cmp("b", "_eq", Num(2)), Cmp("c", "_eq", Num(3))}

Operands ==
  {Undefined, Bool(TRUE), Bool(FALSE), Num(1), Str(""),
   Arr(<<Num(1), Undefined, Num(2)>>), Arr(<<Undefined>>)}
OperatorKeys ==
  {"_eq", "_neq", "_null", "_nnull", "_empty", "_nempty", "_gt", "_in", "_nin", "in", "nin",
   "_contains", "_between"}
OperatorLeaves == {Cmp("f", operator, operand) : operator \in OperatorKeys, operand \in Operands}

Groups(leaves) ==
  {One(g, Arr(<<x, y>>)) : g \in {"_and", "_or"}, x \in leaves, y \in leaves}
ShortCircuited(leaves) ==
  {One("_or", Arr(<<EmptyObj, x>>)) : x \in leaves}
    \cup {One("_or", Arr(<<x, EmptyObj>>)) : x \in leaves}
    \cup {Obj(<<Entry("_or", Arr(<<EmptyObj, x>>))>> \o y.v) : x \in leaves, y \in leaves}
    \cup {One("_and", Arr(<<One("_or", Arr(<<x, EmptyObj>>)), y>>)) : x \in leaves, y \in leaves}
TwoKeys(leaves) ==
  {Obj(p[1].v \o p[2].v) : p \in {q \in leaves \X leaves : q[1].v[1].key # q[2].v[1].key}}
Nested(leaves) ==
  {One(g, Arr(<<One(h, Arr(<<x, y>>)), z>>)) :
     g \in {"_and", "_or"}, h \in {"_and", "_or"}, x \in leaves, y \in leaves, z \in leaves}
    \cup {One(g, Arr(<<z, One(h, Arr(<<x, y>>))>>)) :
     g \in {"_and", "_or"}, h \in {"_and", "_or"}, x \in leaves, y \in leaves, z \in leaves}

\* groups with a child that has two field keys
GroupsOfTwoKeys(leaves) ==
  {One(g, Arr(<<two, z>>)) : g \in {"_and", "_or"}, two \in TwoKeys(leaves), z \in leaves}
    \cup {One(g, Arr(<<z, two>>)) : g \in {"_and", "_or"}, two \in TwoKeys(leaves), z \in leaves}

FiltersOf(collection) ==
  CASE collection = "articles" ->
         ArticleLeaves \cup Groups(ArticleLeaves) \cup ShortCircuited(ArticleLeaves)
           \cup TwoKeys(ArticleLeaves)
    [] collection = "pages" ->
         PageLeaves \cup Groups(PageLeaves) \cup ShortCircuited(PageLeaves)
           \cup TwoKeys(PageLeaves)
    [] collection = "authors" -> AuthorLeaves \cup Groups(AuthorLeaves)
    [] collection = "items" ->
         PlainLeaves \cup Groups(PlainLeaves) \cup Nested(PlainLeaves)
           \cup ShortCircuited(PlainLeaves) \cup TwoKeys(PlainLeaves) \cup OperatorLeaves
           \cup GroupsOfTwoKeys(PlainLeaves)
    [] OTHER -> {}

SearchTerms ==
  {"42", "7", "Abc", "abc", "6ba7b810-9dad-11d1-80b4-00c04fd430c8",
   "6BA7B810-9DAD-11D1-80B4-00C04FD430C8"}

OptNum(max) == {Undefined} \cup {Num(i) : i \in 0..max}

\* the filters applyQuery is run with, next to paging and search
QueryFiltersOf(collection) ==
  CASE collection = "pages" ->
         {Undefined, Cmp("title", "_eq", Str("x")), One("articles", Cmp("title", "_eq", Str("x")))}
    [] collection = "notes" -> {Undefined, Cmp("int_col", "_gt", Num(1))}
    [] OTHER -> {Undefined}

Queries(collection) ==
  {[sort |-> sort, limit |-> limit, offset |-> offset, page |-> page, filter |-> filter,
    search |-> search] :
     sort \in {<<>>, <<"id">>}, limit \in OptNum(MaxLimit), offset \in OptNum(MaxOffset),
     page \in {Undefined} \cup {Num(i) : i \in 1..MaxPage},
     filter \in QueryFiltersOf(collection),
     search \in {Undefined} \cup {Str(t) : t \in SearchTerms}}

(***************************************************************************)
(* The state machine: a caller runs applyQuery or applyFilter on a fresh   *)
(* builder, then has the builder compile the query, which runs the pending *)
(* callbacks.                                                              *)
(*   pc       "idle", "returned" (the call returned), "thrown" (the call   *)
(*            threw), "built" (the SQL was compiled), "failed" (a callback *)
(*            threw while the builder was compiling)                       *)
(*   call     the arguments of the call                                    *)
(*   builder  the builder after the call                                   *)
(*   aliases  the number of aliases generated                              *)
(*   sql      the compiled where clause                                    *)
(*   err      the exception thrown                                         *)
(* Two more callers are modelled next to it, each with a record of its own:*)
(*   o2m      a run of PayloadService.processO2M on a table of related     *)
(*            records: the table before, the arguments, the table after    *)
(*   dflt     a run of getDefaultValue: the column and the value returned  *)
(***************************************************************************)
VARIABLES pc, call, builder, aliases, sql, err, o2m, dflt
vars == <<pc, call, builder, aliases, sql, err, o2m, dflt>>
queryVars == <<pc, call, builder, aliases, sql, err>>

NoO2M ==
  [state |-> "idle", before |-> <<>>, payload |-> Undefined, parent |-> 0,
   action |-> "", after |-> <<>>, saved |-> <<>>]
NoDefault == [state |-> "idle", column |-> Undefined, value |-> Undefined]

NoCall == [entry |-> "", collection |-> "", query |-> NoQuery, subQuery |-> FALSE]

Init ==
  /\ pc = "idle"
  /\ call = NoCall
  /\ builder = NewBuilder
  /\ aliases = 0
  /\ sql = <<>>
  /\ err = "none"
  /\ o2m = NoO2M
  /\ dflt = NoDefault

\* the call returns or throws
Called(entry, collection, query, subQuery, b, n, e) ==
  /\ call' = [entry |-> entry, collection |-> collection, query |-> query,
              subQuery |-> subQuery]
  /\ builder' = b
  /\ aliases' = n
  /\ err' = e
  /\ pc' = IF e = "none" THEN "returned" ELSE "thrown"
  /\ UNCHANGED <<sql, o2m, dflt>>

QueryCalled(collection, query, r) ==
  Called("applyQuery", collection, query, FALSE, r.builder, r.n, r.err)

ApplyQuery ==
  /\ pc = "idle"
  /\ \E collection \in {"pages", "notes"} : \E query \in Queries(collection) :
       QueryCalled(collection, query, applyQuery(collection, query, FALSE))

FilterCalled(collection, filter, subQuery, r) ==
  Called("applyFilter", collection, [NoQuery EXCEPT !.filter = filter], subQuery,
         [NewBuilder EXCEPT !.joins = r.joins, !.stmts = r.stmts], r.n, r.err)

ApplyFilter ==
  /\ pc = "idle"
  /\ \E collection \in Collections : \E filter \in FiltersOf(collection) :
     \E subQuery \in BOOLEAN :
       FilterCalled(collection, filter, subQuery, applyFilter(filter, collection, subQuery, 0))

\* the builder has compiled the query, or a callback threw
Built(r) ==
  /\ sql' = r.sql
  /\ aliases' = r.n
  /\ err' = r.err
  /\ pc' = IF r.err = "none" THEN "built" ELSE "failed"
  /\ UNCHANGED <<call, builder, o2m, dflt>>

\* the builder compiles the query
ToSQL ==
  /\ pc = "returned"
  /\ Built(Compile(builder.stmts, aliases))

\* the caller is done with the builder
Discard ==
  /\ pc \in {"thrown", "built", "failed"}
  /\ pc' = "idle"
  /\ call' = NoCall
  /\ builder' = NewBuilder
  /\ aliases' = 0
  /\ sql' = <<>>
  /\ err' = "none"
  /\ UNCHANGED <<o2m, dflt>>

Next == ApplyQuery \/ ApplyFilter \/ ToSQL \/ Discard

Spec == Init /\ [][Next]_vars

(***************************************************************************)
(* Properties.                                                             *)
(***************************************************************************)
SeqToSet(seq) == {seq[i] : i \in 1..Len(seq)}
Last(seq) == seq[Len(seq)]
Filter == call.query.filter
RootEntries == ObjectEntries(Filter)
IsGroupKey(key) == key = "_and" \/ key = "_or"
TypeOfKey(collection, key) ==
  getRelationType(FindRelation(collection, PathRoot(key)), collection, PathRoot(key))
\* the call ran a filter pass and returned without throwing
Returned == pc \in {"returned", "built", "failed"} /\ Truthy(Filter)

\* C1: within one applyFilter pass no two LEFT JOINs are emitted for the same
\* dotted relational path, however many predicate leaves traverse it.
C1_OneJoinPerPath ==
  \A i, j \in 1..Len(builder.joins) :
    builder.joins[i].hops = builder.joins[j].hops => i = j

RootO2M == {e \in SeqToSet(RootEntries) : TypeOfKey(call.collection, e.key) = "o2m"}
RelationOfKey(key) == FindRelation(call.collection, PathRoot(key))
HasWhereIn(e) ==
  \E st \in SeqToSet(builder.stmts) :
    /\ st.kind = "whereInCallback"
    /\ st.col = Col(call.collection, Primary(call.collection))
    /\ st.relation = RelationOfKey(e.key)
    /\ st.value = e.value
HasInSubquery(e) ==
  \E st \in SeqToSet(sql) :
    /\ st.kind = "inSubquery"
    /\ st.col = Col(call.collection, Primary(call.collection))
    /\ st.select = Col(RelationOfKey(e.key).collection, RelationOfKey(e.key).field)
    /\ st.from = RelationOfKey(e.key).collection
JoinedDirectly(e) ==
  \E j \in SeqToSet(builder.joins) :
    /\ j.hops = <<e.key>>
    /\ j.type = "o2m"
    /\ j.table = RelationOfKey(e.key).collection
    /\ j.left = Col(call.collection, Primary(call.collection))
    /\ j.right = Col(j.alias, RelationOfKey(e.key).field)
NoFirstHopJoin(e) == \A j \in SeqToSet(builder.joins) : j.hops # <<e.key>>
NoWhereIn == \A st \in SeqToSet(builder.stmts) : st.kind # "whereInCallback"
AsSubquery(e) ==
  NoFirstHopJoin(e) /\ HasWhereIn(e) /\ (pc = "built" => HasInSubquery(e))

\* C2 as stated: a root key that is one-to-many gets no join and an IN-subquery
\* when subQuery is false, and a direct LEFT JOIN and no IN-subquery when
\* subQuery is true.
C2_AsStated ==
  Returned =>
    \A e \in RootO2M :
      IF call.subQuery THEN JoinedDirectly(e) /\ NoWhereIn ELSE AsSubquery(e)

\* C2 amended: a root key that is one-to-many gets no join and an IN-subquery
\* when subQuery is false; when subQuery is true no IN-subquery is emitted and
\* the hop is LEFT JOINed directly exactly when the key's filter path has more
\* than one segment.
C2_RootO2M ==
  Returned =>
    \A e \in RootO2M :
      IF call.subQuery
      THEN /\ NoWhereIn
           /\ IF Len(getFilterPath(e.key, e.value)) > 1
              THEN JoinedDirectly(e) ELSE NoFirstHopJoin(e)
      ELSE AsSubquery(e)

C2_Witness ==
  /\ pc = "built" /\ ~call.subQuery /\ call.collection = "pages"
  /\ \E e \in RootO2M : HasInSubquery(e) /\ NoFirstHopJoin(e)

C2_WitnessJoined ==
  /\ pc = "built" /\ call.subQuery /\ call.collection = "pages"
  /\ \E e \in RootO2M : JoinedDirectly(e)

\* the filter without its short-circuited _or groups, at the root and in the
\* children of its _and groups
RECURSIVE Strip(_)
Strip(filter) ==
  IF filter.k # "obj" THEN filter
  ELSE LET kept == SelectSeq(filter.v, LAMBDA e :
                     ~(e.key = "_or" /\ \E c \in SeqToSet(e.value.v) : c = EmptyObj))
       IN Obj([i \in 1..Len(kept) |->
                 IF kept[i].key = "_and"
                 THEN Entry("_and", Arr([c \in 1..Len(kept[i].value.v) |->
                                           Strip(kept[i].value.v[c])]))
                 ELSE kept[i]])
HasShortCircuit == Truthy(Filter) /\ Strip(Filter) # Filter
OnlyShortCircuit ==
  /\ Len(RootEntries) = 1 /\ RootEntries[1].key = "_or"
  /\ \E c \in SeqToSet(RootEntries[1].value.v) : c = EmptyObj

Not3(a) == CASE a = "T" -> "F" [] a = "F" -> "T" [] OTHER -> "U"
And3(a, b) == IF a = "F" \/ b = "F" THEN "F" ELSE IF a = "T" /\ b = "T" THEN "T" ELSE "U"
Or3(a, b) == IF a = "T" \/ b = "T" THEN "T" ELSE IF a = "F" /\ b = "F" THEN "F" ELSE "U"
Eq3(x, y) == IF x = Null \/ y = Null THEN "U" ELSE IF x = y THEN "T" ELSE "F"
In3(x, ys) ==
  IF x = Null THEN "U" ELSE IF \E i \in 1..Len(ys) : ys[i] = x THEN "T" ELSE "F"
Gt3(x, y) ==
  IF x.k = "num" /\ y.k = "num" THEN (IF x.v > y.v THEN "T" ELSE "F") ELSE "U"

RECURSIVE EvalStmt(_, _)
RECURSIVE EvalFrom(_, _, _, _, _)
\* items from i on; done is the OR of the finished AND-runs, run the current AND-run
EvalFrom(items, i, row, done, run) ==
  IF i > Len(items) THEN Or3(done, run)
  ELSE IF items[i].bool = "or"
       THEN EvalFrom(items, i + 1, row, Or3(done, run), EvalStmt(items[i], row))
       ELSE EvalFrom(items, i + 1, row, done, And3(run, EvalStmt(items[i], row)))
EvalList(items, row) ==
  IF items = <<>> THEN "T" ELSE EvalFrom(items, 2, row, "F", EvalStmt(items[1], row))
EvalStmt(st, row) ==
  LET plain ==
        CASE st.kind = "group" -> EvalList(st.items, row)
          [] st.kind = "null" -> IF row[st.col[2]] = Null THEN "T" ELSE "F"
          [] st.kind = "basic" /\ st.op = "=" -> Eq3(row[st.col[2]], st.val)
          [] st.kind = "basic" /\ st.op = "!=" -> Not3(Eq3(row[st.col[2]], st.val))
          [] st.kind = "basic" /\ st.op = ">" -> Gt3(row[st.col[2]], st.val)
          [] st.kind = "in" -> In3(row[st.col[2]], st.vals)
          [] OTHER -> "U"
  IN IF st.not THEN Not3(plain) ELSE plain

\* the boolean formula of a filter tree of single-key nodes
RECURSIVE FilterTruth(_, _)
RECURSIVE TruthAll(_, _, _, _)
TruthAll(children, i, row, conj) ==
  IF i > Len(children) THEN (IF conj THEN "T" ELSE "F")
  ELSE IF conj
       THEN And3(FilterTruth(children[i], row), TruthAll(children, i + 1, row, conj))
       ELSE Or3(FilterTruth(children[i], row), TruthAll(children, i + 1, row, conj))
FilterTruth(filter, row) ==
  LET key == filter.v[1].key
      value == filter.v[1].value
  IN CASE key = "_and" -> TruthAll(value.v, 1, row, TRUE)
       [] key = "_or" -> TruthAll(value.v, 1, row, FALSE)
       [] OTHER -> Eq3(row[key], value.v[1].value)

PlainTrees == PlainLeaves \cup Groups(PlainLeaves) \cup Nested(PlainLeaves)
PlainRows == [{"a", "b", "c"} -> {Null, Num(1), Num(2), Num(3)}]

RECURSIVE ColumnsOf(_)
ColumnsOf(items) ==
  UNION {IF items[i].kind = "group" THEN ColumnsOf(items[i].items) ELSE {items[i].col} :
           i \in 1..Len(items)}

\* C4: a tree of plain-field comparisons in _and/_or groups, every node with a
\* single key, compiles to a predicate on the collection's own columns that is
\* equivalent to the boolean formula of the tree; {_and:[{a:{_eq:1}},{b:{_eq:2}}]}
\* on items gives (items.a = 1 AND items.b = 2).
C4_BooleanTree ==
  (pc # "idle" /\ call.collection = "items" /\ Filter \in PlainTrees) =>
    /\ pc \in {"returned", "built"}
    /\ pc = "built" =>
         /\ \A row \in PlainRows : EvalList(sql, row) = FilterTruth(Filter, row)
         /\ \A col \in ColumnsOf(sql) : col[1] = "items"
         /\ Filter = One("_and", Arr(<<Cmp("a", "_eq", Num(1)), Cmp("b", "_eq", Num(2))>>)) =>
              sql = <<Group("and", <<WhereBasic(Col("items", "a"), "and", FALSE, "=", Num(1)),
                                     WhereBasic(Col("items", "b"), "and", FALSE, "=", Num(2))>>)>>

C4_Witness ==
  /\ pc = "built" /\ call.collection = "items"
  /\ Filter = One("_or", Arr(<<One("_and", Arr(<<Cmp("a", "_eq", Num(1)), Cmp("b", "_eq", Num(2))>>)),
                               Cmp("c", "_eq", Num(3))>>))
  /\ Len(sql) = 1 /\ sql[1].kind = "group" /\ Len(sql[1].items) = 2

\* C5: {f: {_eq: undefined}} contributes no predicate, and
\* {f: {in: [1, undefined, 2]}} compiles, without an error, to exactly one
\* membership predicate of collection.f in (1, 2).
C5_OperandFiltering ==
  (pc # "idle" /\ call.collection = "items") =>
    /\ Filter = Cmp("f", "_eq", Undefined) =>
         pc # "thrown" /\ builder.stmts = <<>>
    /\ Filter = Cmp("f", "in", Arr(<<Num(1), Undefined, Num(2)>>)) =>
         /\ pc # "thrown"
         /\ builder.stmts = <<WhereInList(Col("items", "f"), "and", FALSE, <<Num(1), Num(2)>>)>>

\* a multi-segment path that goes through a many-to-any hop named without scope
RECURSIVE UnscopedOnPath(_, _)
UnscopedOnPath(path, collection) ==
  IF Len(path) < 2 THEN FALSE
  ELSE LET relation == FindRelation(collection, PathRoot(path[1]))
           type == getRelationType(relation, collection, PathRoot(path[1]))
       IN IF relation = NoRelation THEN FALSE
          ELSE IF type = "m2a" /\ PathScope(path[1]) = "" THEN TRUE
          ELSE UnscopedOnPath(Tail(path), NextParent(relation, type, PathScope(path[1])))

\* some key of the filter, outside the short-circuited groups, has such a path
RECURSIVE UnscopedIn(_, _)
UnscopedIn(filter, collection) ==
  \E e \in SeqToSet(ObjectEntries(filter)) :
    IF IsGroupKey(e.key)
    THEN /\ ~(e.key = "_or" /\ \E c \in SeqToSet(e.value.v) : c = EmptyObj)
         /\ \E c \in SeqToSet(e.value.v) : UnscopedIn(c, collection)
    ELSE UnscopedOnPath(getFilterPath(e.key, e.value), collection)

NoUnscopedJoin ==
  \A j \in SeqToSet(builder.joins) : ~(j.type = "m2a" /\ PathScope(Last(j.hops)) = "")

C7_AsStated == pc # "failed"

\* a multi-segment path with a segment that is not relational, or with a
\* many-to-any hop without scope, before its last segment
RECURSIVE DefectOnPath(_, _)
DefectOnPath(path, collection) ==
  IF Len(path) < 2 THEN FALSE
  ELSE LET relation == FindRelation(collection, PathRoot(path[1]))
           type == getRelationType(relation, collection, PathRoot(path[1]))
       IN IF relation = NoRelation THEN TRUE
          ELSE IF type = "m2a" /\ PathScope(path[1]) = "" THEN TRUE
          ELSE DefectOnPath(Tail(path), NextParent(relation, type, PathScope(path[1])))

HasPendingCallback ==
  \E e \in SeqToSet(RootEntries) :
    \/ IsGroupKey(e.key) /\ ~(e.key = "_or" /\ \E c \in SeqToSet(e.value.v) : c = EmptyObj)
    \/ TypeOfKey(call.collection, e.key) = "o2m" /\ ~call.subQuery

RootDefect ==
  \E e \in SeqToSet(RootEntries) :
    /\ ~IsGroupKey(e.key)
    /\ TypeOfKey(call.collection, e.key) # "o2m"
    /\ DefectOnPath(getFilterPath(e.key, e.value), call.collection)

\* C7 amended: an error on a root-level key whose first hop is not one-to-many
\* is raised before the call returns; an error raised after the return, when the
\* builder runs its callbacks, comes from a filter with an _and/_or group or a
\* root-level one-to-many key.
C7_ErrorTiming ==
  /\ (pc # "idle" /\ Truthy(Filter) /\ RootDefect) => pc = "thrown"
  /\ pc = "failed" => HasPendingCallback

C7_Witness ==
  /\ pc = "failed" /\ err = "not_relational" /\ call.collection = "articles"
  /\ Filter = One("_and", Arr(<<One("title", Cmp("x", "_eq", Num(1))),
                                Cmp("title", "_eq", Str("x"))>>))

Paged ==
  /\ pc # "idle" /\ call.entry = "applyQuery"
  /\ call.query.page.k = "num" /\ call.query.limit.k = "num"
AppliedOffset == IF builder.offset = Undefined THEN 0 ELSE builder.offset.v

\* C8 as stated: with page and limit present the offset of the builder is
\* limit * (page - 1), whatever the explicit offset, for every limit >= 0.
C8_AsStated ==
  Paged => AppliedOffset = call.query.limit.v * (call.query.page.v - 1)

\* C8 amended: with page >= 1 and limit >= 1 the offset of the builder is
\* limit * (page - 1), whatever the explicit offset; with limit 0 the page is
\* ignored and the explicit offset, if any, stays.
C8_Paging ==
  Paged =>
    /\ builder.limit = call.query.limit
    /\ call.query.limit.v >= 1 =>
         builder.offset = Num(call.query.limit.v * (call.query.page.v - 1))
    /\ call.query.limit.v = 0 =>
         builder.offset = IF Truthy(call.query.offset) THEN call.query.offset ELSE Undefined

C8_Witness ==
  /\ Paged /\ call.query.page = Num(2) /\ call.query.limit = Num(3)
  /\ call.query.offset = Num(1) /\ builder.offset = Num(3)

\* what the search term is expected to match
LowerOf(term) ==
  CASE term = "Abc" -> "abc"
    [] term = "6BA7B810-9DAD-11D1-80B4-00C04FD430C8" -> "6ba7b810-9dad-11d1-80b4-00c04fd430c8"
    [] OTHER -> term
ParsesAsNumber(term) == term \in {"42", "7"}
ValueOf(term) == IF term = "42" THEN 42 ELSE 7
IsUuid(term) ==
  term \in {"6ba7b810-9dad-11d1-80b4-00c04fd430c8", "6BA7B810-9DAD-11D1-80B4-00C04FD430C8"}
ExpectedSearch(collection, field, term) ==
  CASE field.type \in {"text", "string"} ->
         {[kind |-> "raw", bool |-> "or", not |-> FALSE, col |-> Col(collection, field.name),
           op |-> "LOWER(??) LIKE ?", val |-> Like("%", Str(LowerOf(term)), "%")]}
    [] field.type \in {"bigInteger", "integer", "decimal", "float"} /\ ParsesAsNumber(term) ->
         {WhereBasic(Col(collection, field.name), "or", FALSE, "=", Num(ValueOf(term)))}
    [] field.type = "uuid" /\ IsUuid(term) ->
         {WhereBasic(Col(collection, field.name), "or", FALSE, "=", Str(term))}
    [] OTHER -> {}

\* C9: the search adds, after the statements of the filter and combined with
\* AND, one group that ORs a case-insensitive substring match per text/string
\* column, a numeric equality per numeric column if the term is a number, and
\* an equality per uuid column if the term is a UUID; "42" on a text and an
\* integer column gives (LOWER(text_col) LIKE '%42%' OR int_col = 42).
C9_Search ==
  (pc = "built" /\ call.entry = "applyQuery" /\ Truthy(call.query.search)) =>
    LET term == call.query.search.v
        fields == FieldsOf(call.collection)
        group == Last(sql)
    IN /\ Len(sql) = Len(builder.stmts)
       /\ \A i \in 1..(Len(sql) - 1) : sql[i].kind # "group"
       /\ group.kind = "group" /\ group.bool = "and"
       /\ \A i \in 1..Len(fields) :
            {it \in SeqToSet(group.items) : it.col = Col(call.collection, fields[i].name)}
              = ExpectedSearch(call.collection, fields[i], term)
       /\ Len(group.items) =
            Cardinality({i \in 1..Len(fields) :
                           ExpectedSearch(call.collection, fields[i], term) # {}})
       /\ (call.collection = "notes" /\ term = "42") =>
            group.items =
              <<[kind |-> "raw", bool |-> "or", not |-> FALSE, col |-> Col("notes", "text_col"),
                 op |-> "LOWER(??) LIKE ?", val |-> Like("%", Str("42"), "%")],
                WhereBasic(Col("notes", "int_col"), "or", FALSE, "=", Num(42))>>

C9_Witness ==
  /\ pc = "built" /\ call.collection = "pages" /\ call.query.search = Str("Abc")
  /\ Truthy(Filter) /\ Len(sql) = 2 /\ Len(sql[2].items) = 2

OperandFreeKeys == {"_null", "_nnull", "_empty", "_nempty"}
MeaningOf(operator, operand, v) ==
  LET plain == CASE operator = "_null" -> IF v = Null THEN "T" ELSE "F"
                 [] operator = "_nnull" -> IF v = Null THEN "F" ELSE "T"
                 [] operator = "_empty" -> Eq3(v, Str(""))
                 [] OTHER -> Not3(Eq3(v, Str("")))
  IN IF operand = Bool(FALSE) THEN Not3(plain) ELSE plain

\* C10: _null, _nnull, _empty and _nempty emit one predicate whatever the
\* operand, absent included, meaning IS NULL, IS NOT NULL, = '' and <> '', and
\* the opposite exactly when the operand is false.
C10_OperandFree ==
  \A operator \in OperandFreeKeys : \A operand \in Operands :
    (pc # "idle" /\ call.collection = "items" /\ Filter = Cmp("f", operator, operand)) =>
      /\ pc # "thrown"
      /\ Len(builder.stmts) = 1
      /\ \A v \in {Null, Str(""), Str("x")} :
           EvalList(builder.stmts, [c \in {"f"} |-> v]) = MeaningOf(operator, operand, v)

\* the same for the three operators other than _nempty
C10_ButNempty ==
  \A operator \in OperandFreeKeys \ {"_nempty"} : \A operand \in Operands :
    (pc # "idle" /\ call.collection = "items" /\ Filter = Cmp("f", operator, operand)) =>
      /\ pc # "thrown"
      /\ Len(builder.stmts) = 1
      /\ \A v \in {Null, Str(""), Str("x")} :
           EvalList(builder.stmts, [c \in {"f"} |-> v]) = MeaningOf(operator, operand, v)

\* the joins the planner is to emit for one path: hops is the path up to the
\* hop, table the collection joined, parent the hops of the join before it.
\* afterM2A tells whether planning goes on after a many-to-any hop of a root pass.
RECURSIVE ClaimedJoins(_, _, _, _, _)
ClaimedJoins(path, collection, subQuery, done, afterM2A) ==
  IF path = <<>> THEN {}
  ELSE LET relation == FindRelation(collection, PathRoot(path[1]))
           type == getRelationType(relation, collection, PathRoot(path[1]))
           parent == NextParent(relation, type, PathScope(path[1]))
           hops == Append(done, path[1])
       IN IF relation = NoRelation THEN {}
          ELSE (IF type \in {"m2o", "m2a"} \/ (type = "o2m" /\ (subQuery \/ done # <<>>))
                THEN {[hops |-> hops, table |-> parent, parent |-> done]}
                ELSE {})
               \cup
               (IF (type = "m2o" \/ (type = "m2a" /\ afterM2A) \/ subQuery) /\ Len(path) > 1
                THEN ClaimedJoins(Tail(path), parent, subQuery, hops, afterM2A)
                ELSE {})

\* the join is there, on the joined collection, hanging on the alias of the hop before
Emitted(c) ==
  \E j \in SeqToSet(builder.joins) :
    /\ j.hops = c.hops
    /\ j.table = c.table
    /\ IF c.parent = <<>> THEN j.left[1] = call.collection
       ELSE \E q \in SeqToSet(builder.joins) : q.hops = c.parent /\ j.left[1] = q.alias

RootPaths ==
  {getFilterPath(e.key, e.value) : e \in {x \in SeqToSet(RootEntries) : ~IsGroupKey(x.key)}}

\* C11: after a many-to-one or many-to-any hop, or after any hop of a subquery
\* pass, the planner goes on with the rest of the path, the joined collection
\* being the parent and the new alias the parent alias: every hop so reached
\* is joined, the `rel` of a root-level item:scope.rel.field included.
C11_Recurses ==
  Returned =>
    \A path \in RootPaths :
      Len(path) > 1 =>
        \A c \in ClaimedJoins(path, call.collection, call.subQuery, <<>>, TRUE) : Emitted(c)

\* the same without the hops behind a many-to-any hop of a root pass
C11_ButM2A ==
  Returned =>
    \A path \in RootPaths :
      Len(path) > 1 =>
        \A c \in ClaimedJoins(path, call.collection, call.subQuery, <<>>, FALSE) : Emitted(c)

C11_ReachedM2O ==
  /\ pc = "returned" /\ call.collection = "authors" /\ call.subQuery
  /\ Filter = One("articles", One("page_id", One("articles", Cmp("title", "_eq", Str("x")))))
  /\ Len(builder.joins) = 3

PlainFilters ==
  PlainLeaves \cup Groups(PlainLeaves) \cup Nested(PlainLeaves)
    \cup ShortCircuited(PlainLeaves) \cup TwoKeys(PlainLeaves)
OnPlainFilter == pc # "idle" /\ call.collection = "items" /\ Filter \in PlainFilters

\* the where clause expected of a filter over plain _eq comparisons: a group is
\* combined into its scope with its own operator (own) or with the logical
\* inherited from the scope; its children are compiled with its own operator
RECURSIVE ExpectedFrom(_, _, _, _)
RECURSIVE ExpectedEach(_, _, _, _)
ExpectedGroup(bool, items) == IF items = <<>> THEN <<>> ELSE <<Group(bool, items)>>
ExpectedFrom(entries, i, logical, own) ==
  IF i > Len(entries) THEN <<>>
  ELSE (IF IsGroupKey(entries[i].key)
        THEN IF entries[i].key = "_or" /\ \E c \in SeqToSet(entries[i].value.v) : c = EmptyObj
             THEN <<>>
             ELSE ExpectedGroup(
                    IF own THEN (IF entries[i].key = "_and" THEN "and" ELSE "or") ELSE logical,
                    ExpectedEach(entries[i].value.v, 1,
                                 IF entries[i].key = "_and" THEN "and" ELSE "or", own))
        ELSE <<WhereBasic(Col("items", entries[i].key), logical, FALSE, "=",
                          entries[i].value.v[1].value)>>)
       \o ExpectedFrom(entries, i + 1, logical, own)
ExpectedEach(children, i, logical, own) ==
  IF i > Len(children) THEN <<>>
  ELSE ExpectedFrom(children[i].v, 1, logical, own)
         \o ExpectedEach(children, i + 1, logical, own)

\* the connective of the first statement of a clause or group is not rendered
RECURSIVE Rendered(_)
Rendered(items) ==
  [i \in 1..Len(items) |->
     LET it == IF items[i].kind = "group"
               THEN [items[i] EXCEPT !.items = Rendered(@)] ELSE items[i]
     IN IF i = 1 THEN [it EXCEPT !.bool = "and"] ELSE it]

\* C12 as stated: a group is combined into its parent scope with its own
\* operator, and its children are compiled with that operator.
C12_AsStated ==
  (OnPlainFilter /\ pc = "built") =>
    Rendered(sql) = Rendered(ExpectedFrom(Filter.v, 1, "and", TRUE))

\* C12 amended: a group that is not short-circuited is combined into its parent
\* scope with the logical inherited from that scope (and at the root, the
\* operator of the enclosing group inside a group), and each of its children is
\* compiled with the group's own operator as the inherited logical.
C12_GroupLogical ==
  OnPlainFilter =>
    /\ pc \in {"returned", "built"}
    /\ \A st \in SeqToSet(builder.stmts) : st.kind = "whereWrapped" => st.bool = "and"
    /\ pc = "built" => sql = ExpectedFrom(Filter.v, 1, "and", FALSE)

C12_Witness ==
  /\ pc = "built" /\ call.collection = "items"
  /\ Filter = One("_and", Arr(<<Cmp("c", "_eq", Num(3)),
                                One("_or", Arr(<<Cmp("a", "_eq", Num(1)), Cmp("b", "_eq", Num(2))>>))>>))
  /\ sql = <<Group("and",
               <<WhereBasic(Col("items", "c"), "and", FALSE, "=", Num(3)),
                 Group("and", <<WhereBasic(Col("items", "a"), "or", FALSE, "=", Num(1)),
                                WhereBasic(Col("items", "b"), "or", FALSE, "=", Num(2))>>)>>)>>

\* the path as the descent is described: go down while the subtree is an object
\* with exactly one key and that key is a field name
RECURSIVE ClaimedPath(_, _)
ClaimedPath(key, value) ==
  IF /\ isPlainObject(value)
     /\ Len(value.v) = 1
     /\ value.v[1].key \notin UnderscoreKeys
  THEN <<key>> \o ClaimedPath(value.v[1].key, value.v[1].value)
  ELSE <<key>>

\* some subtree on the way down has two or more keys, the first a field name
RECURSIVE SeveralFieldKeys(_)
SeveralFieldKeys(value) ==
  /\ isPlainObject(value)
  /\ Len(value.v) > 0
  /\ value.v[1].key \notin UnderscoreKeys
  /\ (Len(value.v) > 1 \/ SeveralFieldKeys(value.v[1].value))

RootFields == {e \in SeqToSet(RootEntries) : ~IsGroupKey(e.key)}

\* C13: getFilterPath goes down the subtree only while it has exactly one key,
\* a field name, and stops at an operator key or at a value that is not an
\* object; a subtree with two or more field keys is not reduced to the path of
\* its first key.
C13_FilterPath ==
  (pc # "idle" /\ Truthy(Filter)) =>
    \A e \in RootFields : getFilterPath(e.key, e.value) = ClaimedPath(e.key, e.value)

\* the same for the subtrees that have one key at every level
C13_SingleKeyed ==
  (pc # "idle" /\ Truthy(Filter)) =>
    \A e \in RootFields :
      ~SeveralFieldKeys(e.value) => getFilterPath(e.key, e.value) = ClaimedPath(e.key, e.value)

\* the comparison under the second key is not compiled
C13_SecondKeyDropped ==
  /\ pc = "returned" /\ call.collection = "articles" /\ ~call.subQuery
  /\ Filter = One("author", Obj(<<Entry("name", One("_eq", Str("x"))),
                                  Entry("age", One("_gt", Num(1)))>>))
  /\ builder.stmts = <<WhereBasic(Col("alias1", "name"), "and", FALSE, "=", Str("x"))>>

AliasesOf(joins) == {joins[i].alias : i \in 1..Len(joins)}

\* every column of the clause is qualified by the collection of its pass or by
\* an alias joined in that pass; a subquery is a pass of its own
RECURSIVE Qualified(_, _, _)
Qualified(items, own, joined) ==
  \A i \in 1..Len(items) :
    CASE items[i].kind = "group" -> Qualified(items[i].items, own, joined)
      [] items[i].kind = "inSubquery" ->
           /\ items[i].col[1] \in {own} \cup joined
           /\ Qualified(items[i].where, items[i].from, AliasesOf(items[i].joins))
      [] items[i].kind \in {"whereWrapped", "searchCallback"} -> TRUE
      [] OTHER -> items[i].col[1] \in {own} \cup joined

\* the where clauses of the subqueries only
RECURSIVE SubqueriesQualified(_)
SubqueriesQualified(items) ==
  \A i \in 1..Len(items) :
    CASE items[i].kind = "group" -> SubqueriesQualified(items[i].items)
      [] items[i].kind = "inSubquery" ->
           Qualified(items[i].where, items[i].from, AliasesOf(items[i].joins))
      [] OTHER -> TRUE

\* C14: after a pass that did not throw, every column of an emitted predicate is
\* qualified by the pass's own collection or by an alias that a LEFT JOIN of
\* the same pass introduced.
C14_QualifiersJoined ==
  (pc \in {"returned", "built"} /\ Truthy(Filter)) =>
    /\ Qualified(builder.stmts, call.collection, AliasesOf(builder.joins))
    /\ pc = "built" => Qualified(sql, call.collection, AliasesOf(builder.joins))

\* the same for the subquery passes: the calls with subQuery=true and the
\* subqueries of the root-level one-to-many keys
C14_SubqueryPasses ==
  (pc \in {"returned", "built"} /\ Truthy(Filter)) =>
    /\ call.subQuery =>
         /\ Qualified(builder.stmts, call.collection, AliasesOf(builder.joins))
         /\ pc = "built" => Qualified(sql, call.collection, AliasesOf(builder.joins))
    /\ pc = "built" => SubqueriesQualified(sql)

C14_UnjoinedQualifier ==
  /\ pc = "returned" /\ call.collection = "articles" /\ ~call.subQuery
  /\ Filter = One("page_id", One("articles", One("author", Cmp("name", "_eq", Str("x")))))
  /\ builder.stmts = <<WhereBasic(Col("authors", "name"), "and", FALSE, "=", Str("x"))>>
  /\ Len(builder.joins) = 2

KnownOperators ==
  {"_eq", "_neq", "_gt", "_gte", "_lt", "_lte", "_contains", "_ncontains", "_between",
   "_nbetween", "_null", "_nnull", "_empty", "_nempty"}

\* the entries of a filter that name a one-to-many relation of the collection
\* and compare a column behind it with a known operator and a defined operand
ComparesBehindO2M(filter, collection) ==
  {e \in SeqToSet(ObjectEntries(filter)) :
     /\ ~IsGroupKey(e.key)
     /\ TypeOfKey(collection, e.key) = "o2m"
     /\ Len(getFilterPath(e.key, e.value)) > 1
     /\ ~DefectOnPath(getFilterPath(e.key, e.value), collection)
     /\ getOperation(e.key, e.value).operator \in KnownOperators
     /\ getOperation(e.key, e.value).value # Undefined}

\* a predicate on the last segment of the path, qualified by the alias joined
\* for the hop before it
PredicateOn(stmts, joins, path) ==
  \E j \in SeqToSet(joins) :
    /\ j.hops = SubSeq(path, 1, Len(path) - 1)
    /\ \E st \in SeqToSet(stmts) :
         st.kind \in {"basic", "null", "between"} /\ st.col = Col(j.alias, path[Len(path)])

\* C15: in a pass with subQuery=true, a key that names a one-to-many relation
\* and compares a column behind it contributes a predicate on the alias joined
\* for the hop, both when the pass is called directly and when it is the
\* subquery of a root-level one-to-many key.
C15_SubqueryO2M ==
  /\ (Returned /\ call.subQuery) =>
       \A e \in ComparesBehindO2M(Filter, call.collection) :
         PredicateOn(builder.stmts, builder.joins, getFilterPath(e.key, e.value))
  /\ pc = "built" =>
       \A cb \in {st \in SeqToSet(builder.stmts) : st.kind = "whereInCallback"} :
         \E q \in SeqToSet(sql) :
           /\ q.kind = "inSubquery" /\ q.from = cb.relation.collection
           /\ \A e \in ComparesBehindO2M(cb.value, cb.relation.collection) :
                PredicateOn(q.where, q.joins, getFilterPath(e.key, e.value))

\* the subquery of pages.articles with {comments: {body: {_eq: 'x'}}} joins the
\* comments and has no where clause
C15_DroppedInSubquery ==
  /\ pc = "built" /\ call.collection = "pages" /\ ~call.subQuery
  /\ Filter = One("articles", One("comments", Cmp("body", "_eq", Str("x"))))
  /\ Len(sql) = 1 /\ sql[1].kind = "inSubquery"
  /\ Len(sql[1].joins) = 1 /\ sql[1].where = <<>>

\* the boolean formula of a filter whose nodes may have several keys: the keys of
\* a node are constrained jointly, the children of _and all, of _or at least one
RECURSIVE JointFrom(_, _, _)
RECURSIVE JointEach(_, _, _, _)
JointFrom(entries, i, row) ==
  IF i > Len(entries) THEN "T"
  ELSE And3(IF IsGroupKey(entries[i].key)
            THEN JointEach(entries[i].value.v, 1, row, entries[i].key = "_and")
            ELSE Eq3(row[entries[i].key], entries[i].value.v[1].value),
            JointFrom(entries, i + 1, row))
JointEach(children, i, row, conj) ==
  IF i > Len(children) THEN (IF conj THEN "T" ELSE "F")
  ELSE IF conj
       THEN And3(JointFrom(children[i].v, 1, row), JointEach(children, i + 1, row, conj))
       ELSE Or3(JointFrom(children[i].v, 1, row), JointEach(children, i + 1, row, conj))

SeveralKeyFilters == TwoKeys(PlainLeaves) \cup GroupsOfTwoKeys(PlainLeaves)

\* C16: a node with several field keys constrains all of them jointly, whatever
\* group encloses it: {_or: [{a: {_eq: 1}, b: {_eq: 2}}, {c: {_eq: 3}}]} means
\* (a = 1 AND b = 2) OR c = 3.
C16_JointKeys ==
  (pc = "built" /\ call.collection = "items" /\ Filter \in SeveralKeyFilters) =>
    \A row \in PlainRows : EvalList(sql, row) = JointFrom(Filter.v, 1, row)

\* the same for the nodes at the root of the filter and in an _and group
C16_UnderAnd ==
  (pc = "built" /\ call.collection = "items" /\ Filter \in SeveralKeyFilters
     /\ Filter.v[1].key # "_or") =>
    \A row \in PlainRows : EvalList(sql, row) = JointFrom(Filter.v, 1, row)

\* under _or the keys of the node are alternatives
C16_KeysAsAlternatives ==
  /\ pc = "built" /\ call.collection = "items"
  /\ Filter = One("_or", Arr(<<Obj(<<Entry("a", One("_eq", Num(1))),
                                     Entry("b", One("_eq", Num(2)))>>),
                               Cmp("c", "_eq", Num(3))>>))
  /\ sql = <<Group("and", <<WhereBasic(Col("items", "a"), "or", FALSE, "=", Num(1)),
                            WhereBasic(Col("items", "b"), "or", FALSE, "=", Num(2)),
                            WhereBasic(Col("items", "c"), "or", FALSE, "=", Num(3))>>)>>

(***************************************************************************)
(* PayloadService.processO2M on the relation comments.article -> articles  *)
(* (one_field comments).  The table of the related collection maps each    *)
(* primary key to the foreign key of its record: Absent for no record,     *)
(* Null, or the key of a parent.  ItemsService is modelled by what its     *)
(* methods do to the table; its queries are compiled by applyFilter and    *)
(* evaluated row by row.                                                   *)
(***************************************************************************)
MaxKey == 3
MaxPayload == 2
Parents == {1, 2}
AllKeys == 1..(MaxKey + MaxPayload)
Absent == [k |-> "absent", v |-> 0]
RelationO2M == Relations[4]

Tables ==
  {[k \in AllKeys |-> IF k <= MaxKey THEN t[k] ELSE Absent] :
     t \in [1..MaxKey -> {Absent, Null} \cup {Num(p) : p \in Parents}]}

\* a record as the where clause sees it
RowOf(table, key) ==
  [c \in {Primary(RelationO2M.collection), RelationO2M.field} |->
     IF c = RelationO2M.field THEN table[key] ELSE Num(key)]

\* ItemsService.readByQuery: the keys of the records the compiled filter accepts
KeysAccepted(table, where) ==
  {k \in AllKeys : table[k] # Absent /\ EvalList(where, RowOf(table, k)) = "T"}

PassSql(pass) == Compile(pass.stmts, pass.n).sql

KeysByQuery(table, filter) ==
  KeysAccepted(table, PassSql(applyFilter(filter, RelationO2M.collection, FALSE, 0)))

\* deleteByQuery(query), or updateByQuery(query, {[relation.field]: null})
Deselect(table, keys, action) ==
  [k \in AllKeys |->
     IF k \in keys THEN (IF action = "delete" THEN Absent ELSE Null) ELSE table[k]]

\* the key the database gives to a created record
FreshKey(table) ==
  IF \A k \in AllKeys : table[k] = Absent THEN 1
  ELSE 1 + CHOOSE k \in AllKeys : table[k] # Absent /\ \A j \in AllKeys : j > k => table[j] = Absent

\* tw is [table, keys]: the table and the keys saved so far
Saved(tw, key, parent) ==
  [table |-> [tw.table EXCEPT ![key] = Num(parent)], keys |-> Append(tw.keys, key)]

\* ItemsService.upsertMany / createMany: each record is written with the foreign
\* key of the parent, under its own key or a fresh one
RECURSIVE upsertMany(_, _, _, _)
upsertMany(records, i, parent, tw) ==
  IF i > Len(records) THEN tw
  ELSE upsertMany(records, i + 1, parent,
                  Saved(tw, IF records[i] = EmptyObj THEN FreshKey(tw.table)
                            ELSE records[i].v[1].value.v, parent))

\* the loop over the nested array: acc is [upsert, saved, err]
CollectOne(record, table, parent, acc) ==
  IF record.k = "num"
  THEN IF table[record.v] = Absent THEN [acc EXCEPT !.err = "forbidden"]
       ELSE IF table[record.v] = Num(parent) THEN [acc EXCEPT !.saved = Append(@, record.v)]
       ELSE [acc EXCEPT !.upsert = Append(@, One(Primary(RelationO2M.collection), record))]
  ELSE [acc EXCEPT !.upsert = Append(@, record)]

RECURSIVE CollectFrom(_, _, _, _, _)
CollectFrom(records, i, table, parent, acc) ==
  IF i > Len(records) \/ acc.err # "none" THEN acc
  ELSE CollectFrom(records, i + 1, table, parent, CollectOne(records[i], table, parent, acc))

\* query.filter of the two deselect queries
DeselectFilter(parent, operator, keys) ==
  One("_and",
      Arr(<<One(RelationO2M.field, One("_eq", Num(parent))),
            One(Primary(RelationO2M.collection),
                One(operator, Arr([i \in 1..Len(keys) |-> Num(keys[i])])))>>))

\* the result of processO2M is [table, saved, err]
Deselected(tw, parent, operator, keys, action) ==
  [table |-> Deselect(tw.table, KeysByQuery(tw.table, DeselectFilter(parent, operator, keys)),
                      action),
   saved |-> tw.keys, err |-> "none"]

ArrayUpserted(tw, parent, action) == Deselected(tw, parent, "_nin", tw.keys, action)

ArrayCollected(table, parent, action, acc) ==
  IF acc.err # "none" THEN [table |-> table, saved |-> <<>>, err |-> acc.err]
  ELSE ArrayUpserted(upsertMany(acc.upsert, 1, parent, [table |-> table, keys |-> acc.saved]),
                     parent, action)

\* if (Array.isArray(payload[relation.meta.one_field]))
processArray(table, records, parent, action) ==
  ArrayCollected(table, parent, action,
                 CollectFrom(records, 1, table, parent,
                             [upsert |-> <<>>, saved |-> <<>>, err |-> "none"]))

\* alterations.create, .update, .delete
Alteration(alterations, name) ==
  IF \E i \in 1..Len(alterations.v) : alterations.v[i].key = name
  THEN alterations.v[CHOOSE i \in 1..Len(alterations.v) : alterations.v[i].key = name].value
  ELSE Undefined

\* ItemsService.updateOne: the record has to be there; st is [table, keys, err]
updateOne(st, key, parent) ==
  IF st.table[key] = Absent THEN [st EXCEPT !.err = "forbidden"]
  ELSE [st EXCEPT !.table[key] = Num(parent)]

\* for (const item of alterations.update) await itemsService.updateOne(...)
RECURSIVE updateEach(_, _, _, _)
updateEach(items, i, parent, st) ==
  IF i > Len(items) \/ st.err # "none" THEN st
  ELSE updateEach(items, i + 1, parent, updateOne(st, items[i].v[1].value.v, parent))

\* if (alterations.delete) {...}
AlterationsDeleted(table, st, delete, parent, action) ==
  IF st.err # "none" THEN [table |-> table, saved |-> <<>>, err |-> st.err]
  ELSE IF Truthy(delete)
       THEN Deselected([table |-> st.table, keys |-> <<>>], parent, "_in",
                       [i \in 1..Len(delete.v) |-> delete.v[i].v], action)
       ELSE [table |-> st.table, saved |-> <<>>, err |-> "none"]

\* if (alterations.update) {...}
AlterationsUpdated(table, tw, alterations, parent, action) ==
  AlterationsDeleted(table,
                     updateEach(toArray(Alteration(alterations, "update")),
                                IF Truthy(Alteration(alterations, "update")) THEN 1 ELSE 2,
                                parent, [table |-> tw.table, keys |-> <<>>, err |-> "none"]),
                     Alteration(alterations, "delete"), parent, action)

\* the "updates" object with create / update / delete
processAlterations(table, alterations, parent, action) ==
  AlterationsUpdated(table,
                     IF Truthy(Alteration(alterations, "create"))
                     THEN upsertMany(Alteration(alterations, "create").v, 1, parent,
                                     [table |-> table, keys |-> <<>>])
                     ELSE [table |-> table, keys |-> <<>>],
                     alterations, parent, action)

processO2M(table, payload, parent, action) ==
  IF payload.k = "arr" THEN processArray(table, payload.v, parent, action)
  ELSE processAlterations(table, payload, parent, action)

\* the payloads processO2M is run on
ArrayElems ==
  {Num(k) : k \in 1..MaxKey}
    \cup {One(Primary(RelationO2M.collection), Num(k)) : k \in 1..MaxKey}
    \cup {EmptyObj}
ArrayPayloads == {Arr(r) : r \in UNION {[1..n -> ArrayElems] : n \in 0..MaxPayload}}
AlterationPayloads ==
  {Obj(<<Entry("create", c), Entry("update", u), Entry("delete", d)>>) :
     c \in {Undefined, Arr(<<EmptyObj>>)},
     u \in {Undefined, Arr(<<One(Primary(RelationO2M.collection), Num(1))>>)},
     d \in {Undefined, Arr(<<>>), Arr(<<Num(1)>>), Arr(<<Num(2)>>)}}

Processed(table, payload, parent, action, r) ==
  o2m' = [state |-> IF r.err = "none" THEN "done" ELSE "thrown", before |-> table,
          payload |-> payload, parent |-> parent, action |-> action, after |-> r.table,
          saved |-> r.saved]

\* processO2M runs on one relation of the parent
ProcessO2M ==
  /\ o2m.state = "idle"
  /\ \E table \in Tables : \E payload \in ArrayPayloads \cup AlterationPayloads :
     \E parent \in Parents : \E action \in {"nullify", "delete"} :
       Processed(table, payload, parent, action, processO2M(table, payload, parent, action))
  /\ UNCHANGED <<queryVars, dflt>>

\* the caller goes on with the next payload
ReturnO2M ==
  /\ o2m.state # "idle"
  /\ o2m' = NoO2M
  /\ UNCHANGED <<queryVars, dflt>>

NextO2M == ProcessO2M \/ ReturnO2M

SpecO2M == Init /\ [][NextO2M]_vars

\* the keys named by the payload
PayloadKeys ==
  {o2m.payload.v[i].v : i \in {j \in 1..Len(o2m.payload.v) : o2m.payload.v[j].k = "num"}}
    \cup {o2m.payload.v[i].v[1].value.v :
            i \in {j \in 1..Len(o2m.payload.v) :
                     o2m.payload.v[j].k = "obj" /\ o2m.payload.v[j] # EmptyObj}}
Gone == IF o2m.action = "delete" THEN Absent ELSE Null

\* C17: after processO2M with an array payload, every record whose key is in
\* savedPrimaryKeys still references the parent, and the records nullified (or
\* deleted) are exactly the records of the parent that the payload does not name.
C17_Deselect ==
  (o2m.state = "done" /\ o2m.payload.k = "arr") =>
    /\ \A i \in 1..Len(o2m.saved) : o2m.after[o2m.saved[i]] = Num(o2m.parent)
    /\ \A k \in AllKeys :
         (o2m.before[k] # Absent /\ o2m.after[k] = Gone /\ o2m.before[k] # Gone) =>
           (o2m.before[k] = Num(o2m.parent) /\ k \notin PayloadKeys)
    /\ \A k \in AllKeys :
         (o2m.before[k] = Num(o2m.parent) /\ k \notin PayloadKeys) => o2m.after[k] = Gone

\* what the deselect query does select: every record of the parent
C17_AllOfParent ==
  (o2m.state = "done" /\ o2m.payload.k = "arr") =>
    \A k \in AllKeys :
      o2m.after[k] = IF o2m.before[k] = Num(o2m.parent) \/ k \in SeqToSet(o2m.saved)
                     THEN Gone ELSE o2m.before[k]

\* the record the payload keeps is nullified
C17_KeptIsNullified ==
  /\ o2m.state = "done" /\ o2m.payload = Arr(<<Num(1)>>) /\ o2m.parent = 1
  /\ o2m.action = "nullify" /\ o2m.before[1] = Num(1)
  /\ o2m.saved = <<1>> /\ o2m.after[1] = Null

(***************************************************************************)
(* getDefaultValue.  A string default is the sequence of its characters,   *)
(* so that the quotes are looked for and cut as the code does.             *)
(***************************************************************************)
Text(chars) == [k |-> "str", v |-> chars]
Quote == "'"
DoubleQuote == "\""
Digits == {"0", "1", "2", "3", "4", "5", "6", "7", "8", "9"}
DigitValue(c) ==
  CASE c = "0" -> 0 [] c = "1" -> 1 [] c = "2" -> 2 [] c = "3" -> 3 [] c = "4" -> 4
    [] c = "5" -> 5 [] c = "6" -> 6 [] c = "7" -> 7 [] c = "8" -> 8 [] OTHER -> 9

\* defaultValue.startsWith(q) && defaultValue.endsWith(q)
Wrapped(chars, q) == Len(chars) > 0 /\ chars[1] = q /\ chars[Len(chars)] = q

\* defaultValue.slice(1, -1)
Slice1(chars) == IF Len(chars) < 2 THEN <<>> ELSE SubSeq(chars, 2, Len(chars) - 1)

\* the check for an extra pair of quotes
Unwrapped(value) ==
  IF value.k = "str" /\ (Wrapped(value.v, Quote) \/ Wrapped(value.v, DoubleQuote))
  THEN Text(Slice1(value.v))
  ELSE value

\* Number(defaultValue) for the defaults of the model: <<>> stands for NaN
RECURSIVE DecimalOf(_, _, _)
DecimalOf(chars, i, acc) ==
  IF i > Len(chars) THEN acc ELSE DecimalOf(chars, i + 1, 10 * acc + DigitValue(chars[i]))
ToNumber(value) ==
  CASE value.k = "num" -> <<value.v>>
    [] value.k = "bool" -> <<IF value.v THEN 1 ELSE 0>>
    [] value.k = "str" /\ (\A i \in 1..Len(value.v) : value.v[i] \in Digits) ->
         <<DecimalOf(value.v, 1, 0)>>
    [] OTHER -> <<>>

\* Number.isNaN(Number(defaultValue)) === false ? Number(defaultValue) : defaultValue
NumberOrSame(value) == IF ToNumber(value) # <<>> THEN Num(ToNumber(value)[1]) ELSE value

\* if (typeof value === 'string') return value !== 'false' && value !== '1';
\* return Boolean(value)
castToBoolean(value) ==
  IF value.k = "str"
  THEN Bool(value.v # <<"f", "a", "l", "s", "e">> /\ value.v # <<"1">>)
  ELSE Bool(CASE value.k = "bool" -> value.v [] value.k = "num" -> value.v # 0 [] OTHER -> FALSE)

\* the switch on the local type of the column
CastTo(type, value) ==
  CASE type \in {"bigInteger", "integer", "decimal", "float"} -> NumberOrSame(value)
    [] type = "boolean" -> castToBoolean(value)
    [] OTHER -> value

getDefaultValue(column) ==
  IF column.default_value \in {Undefined, Null, Text(<<"n", "u", "l", "l">>),
                               Text(<<"N", "U", "L", "L">>)}
  THEN Null
  ELSE CastTo(column.type, Unwrapped(column.default_value))

\* the columns getDefaultValue is run on
DefaultStrings ==
  {<<"t", "r", "u", "e">>,
   <<"f", "a", "l", "s", "e">>,
   <<"1">>,
   <<"0">>,
   <<"n", "u", "l", "l">>,
   <<"N", "U", "L", "L">>,
   <<"'", "t", "r", "u", "e", "'">>,
   <<"'", "f", "a", "l", "s", "e", "'">>,
   <<"'", "1", "'">>,
   <<"'", "0", "'">>,
   <<"\"", "1", "\"">>,
   <<"\"", "0", "\"">>,
   <<"'", "n", "u", "l", "l", "'">>,
   <<"a", "b", "c">>,
   <<"'", "a", "b", "c", "'">>,
   <<"4", "2">>,
   <<"'">>,
   <<>>,
   <<"'", "1">>}
DefaultValues ==
  {Undefined, Null, Bool(TRUE), Bool(FALSE), Num(0), Num(1)}
    \cup {Text(chars) : chars \in DefaultStrings}
LocalTypes ==
  {"boolean", "integer", "bigInteger", "decimal", "float", "string", "text", "uuid"}
Columns == [default_value : DefaultValues, type : LocalTypes]

GetDefaultValue ==
  /\ dflt.state = "idle"
  /\ \E column \in Columns :
       dflt' = [state |-> "returned", column |-> column, value |-> getDefaultValue(column)]
  /\ UNCHANGED <<queryVars, o2m>>

\* the caller takes the value
ReturnDefault ==
  /\ dflt.state = "returned"
  /\ dflt' = NoDefault
  /\ UNCHANGED <<queryVars, o2m>>

NextDefault == GetDefaultValue \/ ReturnDefault

SpecDefault == Init /\ [][NextDefault]_vars

\* a string default, bare or in one pair of single or double quotes
Quoted(chars) ==
  {Text(chars), Text(<<Quote>> \o chars \o <<Quote>>),
   Text(<<DoubleQuote>> \o chars \o <<DoubleQuote>>)}
NullDefaults == {Undefined, Null, Text(<<"n", "u", "l", "l">>), Text(<<"N", "U", "L", "L">>)}
OnBoolean == dflt.state = "returned" /\ dflt.column.type = "boolean"

\* C18: on a boolean column getDefaultValue returns true for the string
\* defaults 'true' and '1' and false for 'false' and '0', one pair of wrapping
\* quotes being stripped first; on any column it returns null for a default of
\* null, 'null' or 'NULL'.
C18_BooleanDefaults ==
  /\ OnBoolean =>
       /\ dflt.column.default_value \in Quoted(<<"t", "r", "u", "e">>) \cup Quoted(<<"1">>) =>
            dflt.value = Bool(TRUE)
       /\ dflt.column.default_value \in Quoted(<<"f", "a", "l", "s", "e">>) \cup Quoted(<<"0">>) =>
            dflt.value = Bool(FALSE)
  /\ (dflt.state = "returned" /\ dflt.column.default_value \in NullDefaults) =>
       dflt.value = Null

\* the same without the defaults '1' and '0'
C18_ButDigits ==
  /\ OnBoolean =>
       /\ dflt.column.default_value \in Quoted(<<"t", "r", "u", "e">>) => dflt.value = Bool(TRUE)
       /\ dflt.column.default_value \in Quoted(<<"f", "a", "l", "s", "e">>) =>
            dflt.value = Bool(FALSE)
  /\ (dflt.state = "returned" /\ dflt.column.default_value \in NullDefaults) =>
       dflt.value = Null

\* '1' is taken for false and '0' for true
C18_DigitsSwapped ==
  /\ OnBoolean
  /\ \/ dflt.column.default_value = Text(<<"1">>) /\ dflt.value = Bool(FALSE)
     \/ dflt.column.default_value = Text(<<Quote, "0", Quote>>) /\ dflt.value = Bool(TRUE)
====
